---- MODULE Spec2Model ----
(***************************************************************************)
(* Model of the send-and-observe script (src/send.ts) and of the earlier   *)
(* variant of the same script that traces RPC calls through the http       *)
(* transport's fetch hooks (src/unnamed/part_000).                         *)
(*                                                                         *)
(* Spec / FairSpec : main() of src/send.ts, one action per statement group *)
(*                   between two suspension points.                        *)
(* SpecRpc         : the two RPC tracing wrappers driven by concurrent     *)
(*                   callers.                                              *)
(*                                                                         *)
(* Strings are sequences of one-character strings, so that toLowerCase,    *)
(* includes and JSON.stringify are computed and not assumed.               *)
(***************************************************************************)
EXTENDS Integers, Sequences, FiniteSets, TLC

VARIABLES
    pc,          \* position of main()
    privateKey,  \* process.env.PRIVATE_KEY
    numSends,    \* const numSends
    i,           \* loop variable
    results,     \* the results tally
    hash,        \* transaction hash returned by sendTransaction (0: none)
    error,       \* value caught by the catch clause (or by main().catch)
    console,     \* lines written by main(), in order
    exitCode,    \* process exit status (-1 while running)
    netCalls,    \* client calls issued: balance / send / wait
    sleeps,      \* inter-iteration timers that have elapsed
    variant,     \* tracing wrapper in use (SpecRpc)
    calls,       \* per RPC call: position in the wrapper (SpecRpc)
    rpcLog       \* trace lines written by the wrapper (SpecRpc)

mainVars == <<pc, privateKey, numSends, i, results, hash, error, console,
              exitCode, netCalls, sleeps>>
rpcVars == <<variant, calls, rpcLog>>
vars == <<pc, privateKey, numSends, i, results, hash, error, console,
          exitCode, netCalls, sleeps, variant, calls, rpcLog>>

(***************************************************************************)
(* Bounds                                                                  *)
(***************************************************************************)
\* largest iteration count explored (the source fixes numSends at 100)
MaxSends == 3
\* number of concurrent RPC calls explored
MaxCalls == 2

(***************************************************************************)
(* JavaScript values and strings                                           *)
(***************************************************************************)
Undefined == [t |-> "undefined", s |-> <<>>, n |-> 0, m |-> <<>>]
Str(chars) == [t |-> "string", s |-> chars, n |-> 0, m |-> <<>>]
Num(k) == [t |-> "number", s |-> <<>>, n |-> k, m |-> <<>>]
\* an object {code: k, message: chars}
Obj(k, chars) == [t |-> "object", s |-> <<>>, n |-> k, m |-> chars]

\* mutant: a test against undefined only, as `privateKey === undefined`
TruthyUnlessUndefined(v) == v.t # "undefined"

\* JavaScript truthiness
Truthy(v) ==
    CASE v.t = "undefined" -> FALSE
      [] v.t = "string" -> Len(v.s) > 0
      [] v.t = "number" -> v.n # 0
      [] OTHER -> TRUE

UpperLetters == <<"A","B","C","D","E","F","G","H","I","J","K","L","M",
                  "N","O","P","Q","R","S","T","U","V","W","X","Y","Z">>
LowerLetters == <<"a","b","c","d","e","f","g","h","i","j","k","l","m",
                  "n","o","p","q","r","s","t","u","v","w","x","y","z">>

OtherChars == {"0","1","2","3","4","5","6","7","8","9",
               " ", "-", ".", ":", ",", "{", "}", "\"", "\\"}

Chars ==
    {UpperLetters[k] : k \in 1..Len(UpperLetters)}
    \cup {LowerLetters[k] : k \in 1..Len(LowerLetters)}
    \cup OtherChars

\* lower-case form of every character: letters A-Z map to a-z, the rest to
\* themselves
LowerMap ==
    [c \in Chars |->
        IF \E k \in 1..Len(UpperLetters) : UpperLetters[k] = c
        THEN LowerLetters[CHOOSE k \in 1..Len(UpperLetters) : UpperLetters[k] = c]
        ELSE c]

LowerChar(c) == LowerMap[c]

\* String.prototype.toLowerCase
ToLowerCase(chars) == [k \in 1..Len(chars) |-> LowerChar(chars[k])]

\* String.prototype.includes
Includes(chars, needle) ==
    \E k \in 0..(Len(chars) - Len(needle)) :
        \A j \in 1..Len(needle) : chars[k + j] = needle[j]

Digits == <<"0","1","2","3","4","5","6","7","8","9">>

RECURSIVE NatToString(_)
NatToString(k) ==
    IF k < 10 THEN <<Digits[k + 1]>>
    ELSE NatToString(k \div 10) \o <<Digits[(k % 10) + 1]>>

\* Number to string, as JSON.stringify and template literals print an integer
IntToString(k) == IF k < 0 THEN <<"-">> \o NatToString(-k) ELSE NatToString(k)

RECURSIVE JsonEscape(_)
JsonEscape(chars) ==
    IF chars = <<>> THEN <<>>
    ELSE LET c == Head(chars)
         IN (IF c = "\"" \/ c = "\\" THEN <<"\\", c>> ELSE <<c>>)
            \o JsonEscape(Tail(chars))

JsonQuote(chars) == <<"\"">> \o JsonEscape(chars) \o <<"\"">>

\* JSON.stringify(error?.details || {})
StringifyDetails(details) ==
    IF ~Truthy(details) THEN <<"{", "}">>
    ELSE CASE details.t = "string" -> JsonQuote(details.s)
           [] details.t = "number" -> IntToString(details.n)
           [] OTHER ->
                <<"{">> \o JsonQuote(<<"c","o","d","e">>) \o <<":">>
                \o IntToString(details.n) \o <<",">>
                \o JsonQuote(<<"m","e","s","s","a","g","e">>) \o <<":">>
                \o JsonQuote(details.m) \o <<"}">>

BlockIsOutOfRange ==
    <<"b","l","o","c","k"," ","i","s"," ","o","u","t"," ","o","f"," ",
      "r","a","n","g","e">>
Code32019 == <<"-","3","2","0","1","9">>

\* error?.message?.toLowerCase() || ""
ErrorMessage(e) ==
    IF e.message.t = "string" THEN ToLowerCase(e.message.s) ELSE <<>>

\* JSON.stringify(error?.details || {}).toLowerCase()
ErrorDetails(e) == ToLowerCase(StringifyDetails(e.details))

\* the condition of the if statement in the catch clause
IsBlockOutOfRange(e) ==
    LET errorMessage == ErrorMessage(e)
        errorDetails == ErrorDetails(e)
    IN \/ Includes(errorMessage, BlockIsOutOfRange)
       \/ Includes(errorDetails, BlockIsOutOfRange)
       \/ Includes(errorDetails, Code32019)

(***************************************************************************)
(* Values the environment can produce                                      *)
(***************************************************************************)
MsgInsufficient ==
    <<"I","n","s","u","f","f","i","c","i","e","n","t"," ","f","u","n","d","s">>
MsgMixedCase ==
    <<"R","P","C",":"," ","B","l","o","c","k"," ","I","s"," ","O","u","t"," ",
      "O","f"," ","R","a","n","g","e",".">>
MsgUpperCase ==
    <<"B","L","O","C","K"," ","I","S"," ","O","U","T"," ","O","F"," ",
      "R","A","N","G","E">>
MsgHttpFailed ==
    <<"H","T","T","P"," ","r","e","q","u","e","s","t"," ","f","a","i","l","e","d",".">>
MsgWithCode ==
    <<"R","P","C"," ","e","r","r","o","r"," ","-","3","2","0","1","9">>
DetailsWithCode ==
    <<"{","\"","c","o","d","e","\"",":","-","3","2","0","1","9","}">>
MsgNearMiss ==
    <<"b","l","o","c","k"," ","i","s"," ","o","u","t"," ","o","f"," ",
      "r","a","n","g">>

Err(message, details) == [message |-> message, details |-> details]
NoError == Err(Undefined, Undefined)

\* errors thrown by sendTransaction / waitForTransactionReceipt / getBalance
Errors ==
    { Err(Str(MsgInsufficient), Undefined),
      Err(Str(MsgMixedCase), Undefined),
      Err(Str(MsgHttpFailed), Str(MsgUpperCase)),
      Err(Str(MsgHttpFailed), Str(DetailsWithCode)),
      Err(Str(MsgWithCode), Undefined),
      Err(Str(MsgWithCode), Str(MsgInsufficient)),
      Err(Undefined, Obj(-32019, MsgInsufficient)),
      Err(Undefined, Obj(-32000, MsgUpperCase)),
      Err(Str(MsgHttpFailed), Num(-32019)),
      Err(Str(MsgNearMiss), Str(MsgNearMiss)),
      Err(Str(<<>>), Str(<<>>)),
      NoError }

\* the catch clause's test for each error that can reach it
Classification == [e \in Errors |-> IsBlockOutOfRange(e)]

ValidKey == <<"0","x","a","1">>
PrivateKeys == {Undefined, Str(<<>>), Str(ValidKey)}

ReceiptStatuses == {"success", "reverted"}

(***************************************************************************)
(* main()                                                                  *)
(***************************************************************************)
Line(iter, text) == [iter |-> iter, text |-> text]

NoResults ==
    [total |-> 0, successful |-> 0, failed |-> 0,
     blockOutOfRangeErrors |-> 0, otherErrors |-> 0]

Bump(r, field) == [r EXCEPT ![field] = @ + 1]

\* (count / total * 100).toFixed(2): NaN and Infinity print as such,
\* a finite value is rounded to hundredths of a percent
ToFixed2Percent(count, total) ==
    IF total = 0
    THEN [kind |-> IF count = 0 THEN "NaN" ELSE "Infinity", hundredths |-> 0]
    ELSE [kind |-> "finite",
          hundredths |-> (2 * 10000 * count + total) \div (2 * total)]

SummaryLine(r) ==
    [iter |-> 0, text |-> "results",
     total |-> r.total,
     successful |-> r.successful,
     successfulPct |-> ToFixed2Percent(r.successful, r.total),
     failed |-> r.failed,
     failedPct |-> ToFixed2Percent(r.failed, r.total),
     blockOutOfRangeErrors |-> r.blockOutOfRangeErrors,
     otherErrors |-> r.otherErrors]

Init ==
    /\ pc = "start"
    /\ privateKey \in PrivateKeys
    /\ numSends \in 0..MaxSends
    /\ i = 0
    /\ results = NoResults
    /\ hash = 0
    /\ error = NoError
    /\ console = <<>>
    /\ exitCode = -1
    /\ netCalls = [balance |-> 0, send |-> 0, wait |-> 0]
    /\ sleeps = 0
    /\ variant = "none"
    /\ calls = [c \in 1..MaxCalls |-> [at |-> "idle", reply |-> "none"]]
    /\ rpcLog = <<>>

\* if (!privateKey) { console.error(...); process.exit(1) }
CheckPrivateKey ==
    /\ pc = "start"
    /\ IF ~Truthy(privateKey)
       THEN /\ console' = console \o <<Line(0, "error: PRIVATE_KEY required"),
                                       Line(0, "usage")>>
            /\ exitCode' = 1
            /\ pc' = "exited"
       ELSE /\ pc' = "createClient"
            /\ UNCHANGED <<console, exitCode>>
    /\ UNCHANGED <<privateKey, numSends, i, results, hash, error, netCalls,
                   sleeps, rpcVars>>

\* privateKeyToAccount, the three console.log, createWalletClient
CreateClient ==
    /\ pc = "createClient"
    /\ \/ /\ console' = console \o <<Line(0, "account"), Line(0, "rpc url"),
                                     Line(0, "")>>
          /\ pc' = "getBalance"
          /\ UNCHANGED error
       \/ \E e \in Errors :
             /\ error' = e
             /\ pc' = "rejected"
             /\ UNCHANGED console
    /\ UNCHANGED <<privateKey, numSends, i, results, hash, exitCode, netCalls,
                   sleeps, rpcVars>>

\* await client.getBalance(...); the declarations of numSends and results
GetBalance ==
    /\ pc = "getBalance"
    /\ netCalls' = Bump(netCalls, "balance")
    /\ \/ /\ console' = console \o <<Line(0, "balance"), Line(0, "starting")>>
          /\ results' = [NoResults EXCEPT !.total = numSends]
          /\ i' = 1
          /\ pc' = "loopTest"
          /\ UNCHANGED error
       \/ \E e \in Errors :
             /\ error' = e
             /\ pc' = "rejected"
             /\ UNCHANGED <<console, results, i>>
    /\ UNCHANGED <<privateKey, numSends, hash, exitCode, sleeps, rpcVars>>

\* main().catch((error) => { console.error(error); process.exit(1) })
MainRejected ==
    /\ pc = "rejected"
    /\ console' = Append(console, Line(0, "unhandled error"))
    /\ exitCode' = 1
    /\ pc' = "exited"
    /\ UNCHANGED <<privateKey, numSends, i, results, hash, error, netCalls,
                   sleeps, rpcVars>>

\* for (...; i <= numSends; ...) { try { console.log("Sending") ...
LoopTest ==
    /\ pc = "loopTest"
    /\ IF i <= numSends
       THEN /\ console' = Append(console, Line(i, "sending"))
            /\ pc' = "send"
       ELSE /\ pc' = "summary"
            /\ UNCHANGED console
    /\ UNCHANGED <<privateKey, numSends, i, results, hash, error, exitCode,
                   netCalls, sleeps, rpcVars>>

\* mutant: a submission error is swallowed and the wait is started anyway
SendTransactionFallsThrough ==
    /\ pc = "send"
    /\ netCalls' = Bump(netCalls, "send")
    /\ \/ /\ hash' = i
          /\ console' = Append(console, Line(i, "waiting"))
          /\ pc' = "wait"
          /\ UNCHANGED error
       \/ \E e \in Errors :
             /\ error' = e
             /\ pc' = "wait"
             /\ UNCHANGED <<hash, console>>
    /\ UNCHANGED <<privateKey, numSends, i, results, exitCode, sleeps, rpcVars>>

\* const hash = await client.sendTransaction(...); console.log("Waiting")
SendTransaction ==
    /\ pc = "send"
    /\ netCalls' = Bump(netCalls, "send")
    /\ \/ /\ hash' = i
          /\ console' = Append(console, Line(i, "waiting"))
          /\ pc' = "wait"
          /\ UNCHANGED error
       \/ \E e \in Errors :
             /\ error' = e
             /\ pc' = "catch"
             /\ UNCHANGED <<hash, console>>
    /\ UNCHANGED <<privateKey, numSends, i, results, exitCode, sleeps, rpcVars>>

\* mutant: a receipt with a non-success status is logged but not counted
WaitForTransactionReceiptUncounted ==
    /\ pc = "wait"
    /\ netCalls' = Bump(netCalls, "wait")
    /\ \/ \E status \in ReceiptStatuses :
             /\ IF status = "success"
                THEN /\ results' = Bump(results, "successful")
                     /\ console' = Append(console, Line(i, "success"))
                ELSE /\ results' = results
                     /\ console' = Append(console, Line(i, "status not success"))
             /\ pc' = "delayTest"
             /\ UNCHANGED error
       \/ \E e \in Errors :
             /\ error' = e
             /\ pc' = "catch"
             /\ UNCHANGED <<results, console>>
    /\ UNCHANGED <<privateKey, numSends, i, hash, exitCode, sleeps, rpcVars>>

\* const receipt = await client.waitForTransactionReceipt({ hash }); if/else
WaitForTransactionReceipt ==
    /\ pc = "wait"
    /\ netCalls' = Bump(netCalls, "wait")
    /\ \/ \E status \in ReceiptStatuses :
             /\ IF status = "success"
                THEN /\ results' = Bump(results, "successful")
                     /\ console' = Append(console, Line(i, "success"))
                ELSE /\ results' = Bump(results, "failed")
                     /\ console' = Append(console, Line(i, "status not success"))
             /\ pc' = "delayTest"
             /\ UNCHANGED error
       \/ \E e \in Errors :
             /\ error' = e
             /\ pc' = "catch"
             /\ UNCHANGED <<results, console>>
    /\ UNCHANGED <<privateKey, numSends, i, hash, exitCode, sleeps, rpcVars>>

\* mutant: an error that is not block-out-of-range is rethrown
CatchIterationErrorRethrows ==
    /\ pc = "catch"
    /\ IF Classification[error]
       THEN /\ results' = Bump(Bump(results, "failed"), "blockOutOfRangeErrors")
            /\ console' = console \o <<Line(i, "block out of range"),
                                       Line(i, "error details")>>
            /\ pc' = "delayTest"
       ELSE /\ results' = Bump(results, "failed")
            /\ pc' = "rejected"
            /\ UNCHANGED console
    /\ UNCHANGED <<privateKey, numSends, i, hash, error, exitCode, netCalls,
                   sleeps, rpcVars>>

\* catch (error) { results.failed++; classify; console.error(error) }
CatchIterationError ==
    /\ pc = "catch"
    /\ IF Classification[error]
       THEN /\ results' = Bump(Bump(results, "failed"), "blockOutOfRangeErrors")
            /\ console' = console \o <<Line(i, "block out of range"),
                                       Line(i, "error details")>>
       ELSE /\ results' = Bump(Bump(results, "failed"), "otherErrors")
            /\ console' = console \o <<Line(i, "other error"),
                                       Line(i, "error details")>>
    /\ pc' = "delayTest"
    /\ UNCHANGED <<privateKey, numSends, i, hash, error, exitCode, netCalls,
                   sleeps, rpcVars>>

\* mutant: the delay test is i <= numSends, so the last iteration sleeps too
DelayTestInclusive ==
    /\ pc = "delayTest"
    /\ IF i <= numSends
       THEN /\ pc' = "sleeping"
            /\ UNCHANGED i
       ELSE /\ pc' = "loopTest"
            /\ i' = i + 1
    /\ hash' = 0
    /\ error' = NoError
    /\ UNCHANGED <<privateKey, numSends, results, console, exitCode, netCalls,
                   sleeps, rpcVars>>

\* if (i < numSends) { await new Promise(setTimeout 500) }; otherwise i++
DelayTest ==
    /\ pc = "delayTest"
    /\ IF i < numSends
       THEN /\ pc' = "sleeping"
            /\ UNCHANGED i
       ELSE /\ pc' = "loopTest"
            /\ i' = i + 1
    /\ hash' = 0
    /\ error' = NoError
    /\ UNCHANGED <<privateKey, numSends, results, console, exitCode, netCalls,
                   sleeps, rpcVars>>

\* the 500 ms timer fires; i++
TimerFires ==
    /\ pc = "sleeping"
    /\ sleeps' = sleeps + 1
    /\ i' = i + 1
    /\ pc' = "loopTest"
    /\ UNCHANGED <<privateKey, numSends, results, hash, error, console,
                   exitCode, netCalls, rpcVars>>

\* the RESULTS block; main() resolves and the process ends with status 0
PrintSummary ==
    /\ pc = "summary"
    /\ console' = Append(console, SummaryLine(results))
    /\ exitCode' = 0
    /\ pc' = "done"
    /\ UNCHANGED <<privateKey, numSends, i, results, hash, error, netCalls,
                   sleeps, rpcVars>>

Next ==
    \/ CheckPrivateKey
    \/ CreateClient
    \/ GetBalance
    \/ MainRejected
    \/ LoopTest
    \/ SendTransaction
    \/ WaitForTransactionReceipt
    \/ CatchIterationError
    \/ DelayTest
    \/ TimerFires
    \/ PrintSummary

Spec == Init /\ [][Next]_vars

\* every awaited promise settles and the timer fires
FairSpec == Spec /\ WF_vars(Next)

(***************************************************************************)
(* RPC tracing wrappers under concurrent callers                           *)
(***************************************************************************)
Calls == 1..MaxCalls

Trace(c, kind) == [call |-> c, kind |-> kind]

At(c, at, reply) == [calls EXCEPT ![c] = [at |-> at, reply |-> reply]]

\* outcomes of httpTransport.request: resolves or rejects
TransportOutcomes == {"result", "error"}

\* HTTP responses seen by onFetchResponse
FetchResponses == {"non200", "rpcError", "result", "neither", "unparsable"}

InitRpc ==
    /\ pc = "tracing"
    /\ privateKey = Str(ValidKey)
    /\ numSends = 0
    /\ i = 0
    /\ results = NoResults
    /\ hash = 0
    /\ error = NoError
    /\ console = <<>>
    /\ exitCode = -1
    /\ netCalls = [balance |-> 0, send |-> 0, wait |-> 0]
    /\ sleeps = 0
    /\ variant \in {"loggingTransport", "fetchHooks"}
    /\ calls = [c \in Calls |-> [at |-> "idle", reply |-> "none"]]
    /\ rpcLog = <<>>

\* loggingTransport: request(args) up to `await httpTransport.request(args)`
LtRequest(c) ==
    /\ variant = "loggingTransport"
    /\ calls[c].at = "idle"
    /\ calls' = At(c, "awaitingTransport", "none")
    /\ UNCHANGED <<mainVars, variant, rpcLog>>

\* loggingTransport: the continuation after the await, both branches of the
\* try: the two console.log calls run without a suspension between them
LtSettled(c) ==
    /\ variant = "loggingTransport"
    /\ calls[c].at = "awaitingTransport"
    /\ \E reply \in TransportOutcomes :
          /\ rpcLog' = rpcLog \o <<Trace(c, "request"), Trace(c, reply)>>
          /\ calls' = At(c, "settled", reply)
    /\ UNCHANGED <<mainVars, variant>>

\* onFetchRequest: with a body it suspends on clonedRequest.text() before
\* it logs; without one it logs at once
FhOnFetchRequest(c) ==
    /\ variant = "fetchHooks"
    /\ calls[c].at = "idle"
    /\ \E hasBody \in BOOLEAN :
          IF hasBody
          THEN /\ calls' = At(c, "readingRequestBody", "none")
               /\ UNCHANGED rpcLog
          ELSE /\ rpcLog' = Append(rpcLog, Trace(c, "request"))
               /\ calls' = At(c, "fetching", "none")
    /\ UNCHANGED <<mainVars, variant>>

\* onFetchRequest: continuation after the body text is read
FhRequestBodyRead(c) ==
    /\ variant = "fetchHooks"
    /\ calls[c].at = "readingRequestBody"
    /\ rpcLog' = Append(rpcLog, Trace(c, "request"))
    /\ calls' = At(c, "fetching", "none")
    /\ UNCHANGED <<mainVars, variant>>

\* onFetchResponse: a non-200 status is logged at once, otherwise it
\* suspends on clonedResponse.text()
FhOnFetchResponse(c) ==
    /\ variant = "fetchHooks"
    /\ calls[c].at = "fetching"
    /\ \E r \in FetchResponses :
          IF r = "non200"
          THEN /\ rpcLog' = Append(rpcLog, Trace(c, "error"))
               /\ calls' = At(c, "settled", r)
          ELSE /\ calls' = At(c, "readingResponseBody", r)
               /\ UNCHANGED rpcLog
    /\ UNCHANGED <<mainVars, variant>>

\* onFetchResponse: continuation after the response text is read
FhResponseBodyRead(c) ==
    /\ variant = "fetchHooks"
    /\ calls[c].at = "readingResponseBody"
    /\ rpcLog' =
          CASE calls[c].reply = "rpcError" -> Append(rpcLog, Trace(c, "error"))
            [] calls[c].reply = "result" -> Append(rpcLog, Trace(c, "result"))
            [] calls[c].reply = "unparsable" -> Append(rpcLog, Trace(c, "ok"))
            [] OTHER -> rpcLog
    /\ calls' = At(c, "settled", calls[c].reply)
    /\ UNCHANGED <<mainVars, variant>>

NextRpc ==
    \/ \E c \in Calls : LtRequest(c)
    \/ \E c \in Calls : LtSettled(c)
    \/ \E c \in Calls : FhOnFetchRequest(c)
    \/ \E c \in Calls : FhRequestBodyRead(c)
    \/ \E c \in Calls : FhOnFetchResponse(c)
    \/ \E c \in Calls : FhResponseBodyRead(c)

SpecRpc == InitRpc /\ [][NextRpc]_vars

(***************************************************************************)
(* Properties                                                              *)
(***************************************************************************)
Last(seq) == seq[Len(seq)]

ResultTexts == {"success", "status not success", "block out of range", "other error"}

\* positions of the console lines of iteration k whose text is in texts
LinesOf(k, texts) ==
    {n \in 1..Len(console) : console[n].iter = k /\ console[n].text \in texts}

CountText(text) ==
    Cardinality({n \in 1..Len(console) : console[n].text = text})

SummaryPrinted == pc = "done" /\ Len(console) > 0 /\ Last(console).text = "results"

InLoop == pc \in {"loopTest", "send", "wait", "catch", "delayTest", "sleeping"}

\* an error has just been caught and classified in iteration i
JustCaught == pc = "delayTest" /\ Last(console).text = "error details"

ZeroPercent == [kind |-> "finite", hundredths |-> 0]

\* C1: in the summary printed after the loop, the block-out-of-range count
\* plus the other-errors count equals the failed count.
C1_BreakdownSumsToFailed ==
    SummaryPrinted =>
        Last(console).blockOutOfRangeErrors + Last(console).otherErrors
            = Last(console).failed

\* C2: in the summary printed after the loop successful + failed = total, and
\* each completed iteration has added exactly one to successful + failed.
C2_SuccessfulPlusFailedIsTotal ==
    /\ SummaryPrinted =>
          /\ Last(console).successful + Last(console).failed = Last(console).total
          /\ Last(console).total = numSends
    /\ pc = "loopTest" => results.successful + results.failed = i - 1
    /\ pc \in {"delayTest", "sleeping"} => results.successful + results.failed = i
    /\ InLoop =>
          /\ results.successful = CountText("success")
          /\ results.failed = CountText("status not success")
                + CountText("block out of range") + CountText("other error")

C2_Witness ==
    /\ SummaryPrinted
    /\ Last(console).total >= 2
    /\ Last(console).successful >= 1
    /\ Last(console).failed >= 1

\* C3: every receipt with a non-success status is counted as failed and in
\* the other-errors count, not as successful and not as block-out-of-range.
C3_NonSuccessReceiptIsOther ==
    (InLoop \/ pc \in {"summary", "done"}) =>
        /\ results.otherErrors
              = CountText("other error") + CountText("status not success")
        /\ results.blockOutOfRangeErrors = CountText("block out of range")
        /\ results.successful = CountText("success")
        /\ results.failed = CountText("status not success")
              + CountText("block out of range") + CountText("other error")

\* the predicate of the claim: either text, in the message or in the details
ContainsEitherText(chars) ==
    Includes(chars, BlockIsOutOfRange) \/ Includes(chars, Code32019)

\* C4: a caught error whose message or stringified details contains
\* "block is out of range" (any letter case) or "-32019" is classified as
\* block-out-of-range, never as other.
C4_MatchingErrorIsBlockOutOfRange ==
    (JustCaught /\ (ContainsEitherText(ErrorMessage(error))
                    \/ ContainsEitherText(ErrorDetails(error)))) =>
        /\ console[Len(console) - 1] = Line(i, "block out of range")
        /\ results.blockOutOfRangeErrors = CountText("block out of range")
        /\ results.otherErrors = CountText("other error")

\* C5: with PRIVATE_KEY absent or empty the process ends with status 1, no
\* network call is issued and no iteration is started.
C5_MissingKeyExitsWithoutNetwork ==
    (privateKey = Undefined \/ privateKey = Str(<<>>)) =>
        /\ pc \in {"start", "exited"}
        /\ pc = "exited" <=> exitCode = 1
        /\ pc = "start" <=> exitCode = -1
        /\ netCalls = [balance |-> 0, send |-> 0, wait |-> 0]
        /\ i = 0
        /\ \A n \in 1..Len(console) : console[n].iter = 0
        /\ pc = "start" => ENABLED CheckPrivateKey

C5_Witness ==
    /\ privateKey = Str(<<>>)
    /\ pc = "exited"
    /\ exitCode = 1

\* C6: once the loop has started the run issues one submission per iteration,
\* never leaves through the top-level handler, and reaches the summary with
\* exit status 0 after exactly numSends iterations, whatever is thrown.
C6_LoopRunsToCompletion ==
    /\ [](InLoop =>
            /\ exitCode = -1
            /\ netCalls.send = (IF pc \in {"loopTest", "send"} THEN i - 1 ELSE i))
    /\ [](pc = "done" =>
            /\ exitCode = 0
            /\ i = numSends + 1
            /\ netCalls.send = numSends
            /\ \A k \in 1..numSends : Cardinality(LinesOf(k, {"sending"})) = 1)
    /\ (InLoop ~> pc = "done")

C6_Witness ==
    /\ pc = "done"
    /\ exitCode = 0
    /\ numSends >= 2
    /\ results.failed = numSends
    /\ results.otherErrors >= 1
    /\ results.blockOutOfRangeErrors >= 1

\* C8: the submission of an iteration starts only after all earlier outcomes
\* are counted and one delay per earlier iteration has elapsed; there is no
\* delay after the last iteration, so numSends - 1 delays in all.
C8_SequentialWithDelays ==
    /\ pc \in {"send", "wait", "catch"} =>
          /\ results.successful + results.failed = i - 1
          /\ sleeps = i - 1
          /\ \A k \in 1..(i - 1) : Cardinality(LinesOf(k, ResultTexts)) = 1
    /\ pc \in {"summary", "done"} =>
          /\ sleeps = (IF numSends >= 1 THEN numSends - 1 ELSE 0)
          /\ results.successful + results.failed = numSends
    /\ pc = "sleeping" => i < numSends

C8_Witness ==
    /\ pc = "done"
    /\ numSends >= 3
    /\ sleeps = numSends - 1

C10_IterationStateMachine ==
    [][ /\ pc' = "wait" => (pc = "send" /\ hash' = i /\ i >= 1)
        /\ netCalls'.wait # netCalls.wait =>
              (pc = "wait" /\ hash = i /\ netCalls'.wait = netCalls.wait + 1
               /\ Cardinality(LinesOf(i, {"waiting"})) = 1)
        /\ (pc = "send" /\ pc' # "wait") =>
              (pc' = "catch" /\ hash' = 0 /\ netCalls'.wait = netCalls.wait)
        /\ pc = "catch" =>
              (pc' = "delayTest"
               /\ console'[Len(console') - 1].text \in {"block out of range", "other error"}
               /\ netCalls' = netCalls)
        /\ pc' = "delayTest" =>
              /\ Cardinality({n \in 1..Len(console') : console'[n].iter = i
                                 /\ console'[n].text \in ResultTexts}) = 1
              /\ (LinesOf(i, {"waiting"}) = {} =>
                    \A n \in 1..Len(console') : console'[n].iter = i
                        => console'[n].text # "success")
        /\ SubSeq(console', 1, Len(console)) = console
        /\ \A k \in 1..(i - 1) : Cardinality(LinesOf(k, ResultTexts)) = 1
      ]_vars

C10_Witness ==
    /\ pc = "done"
    /\ numSends >= 3
    /\ LinesOf(1, {"waiting"}) = {}
    /\ LinesOf(1, {"other error"}) # {}
    /\ LinesOf(2, {"waiting"}) # {}
    /\ LinesOf(2, {"block out of range"}) # {}
    /\ LinesOf(3, {"success"}) # {}

\* C7: in the RPC trace, the line announcing a request is immediately
\* followed by the result or error line of that same request.
C7_RequestLineFollowedByItsResult ==
    \A k \in 1..(Len(rpcLog) - 1) :
        rpcLog[k].kind = "request" =>
            /\ rpcLog[k + 1].call = rpcLog[k].call
            /\ rpcLog[k + 1].kind # "request"

====
